---- MODULE Spec2Model ----
\* Resilient request pipeline of the SkillBase client SDKs:
\*   TypeScript client  src/sdk/src/types.ts                      (class SkillBaseClient)
\*   Unity client       src/sdk-unity/Runtime/SkillBase/SkillBaseClient.cs
\* One client object is modelled; `platform` says which port it is.  Logically
\* concurrent calls on the client are the processes of Procs.  Control leaves a
\* call only at the network exchange and at the backoff wait.
EXTENDS Integers, Sequences, FiniteSets, TLC

\* ---------------------------------------------------------------- bounds
NumProcs == 2
MaxRetriesCfg == 3
MaxRetriesConc == 1
MaxHostCalls == 1
MaxRetriesLive == 2

Procs == 1..NumProcs

\* options.retryDelay ?? 1000: the base delay in ms.
RetryDelay == 1000

\* ---------------------------------------------------------------- values
\* An Authorization header value "Bearer <x>": the credential it was built from.
NoHdr == <<"none", 0>>
KeyHdr(k) == <<"key", k>>
JwtHdr(t) == <<"jwt", t>>

\* SkillBaseError(message, statusCode, response); origin tells which throw site made it.
Err(code, origin) == [code |-> code, origin |-> origin]
NullErr == Err(-1, "null")
OkRes == Err(200, "ok")

\* Representative HTTP status codes: 2xx, 401, another 4xx, 5xx.
Statuses == {200, 401, 404, 500}

\* What the transport hands back for one physical send.
\*   resp:           fetch resolved; status, whether the body decodes as JSON,
\*                   whether the decoded body has a truthy accessToken / apiKey
\*                   (looked at only in the decoded body of a 2xx answer)
\*   fetchTypeError: fetch rejected with a TypeError whose message contains 'fetch'
\*   otherError:     fetch rejected with any other exception
Outcome(kind, status, json, field) == [kind |-> kind, status |-> status, json |-> json, field |-> field]
Outcomes ==
    {o \in {Outcome("resp", s, j, f) : s \in Statuses, j \in BOOLEAN, f \in BOOLEAN} :
        o.field => (o.json /\ o.status = 200)}
    \cup {Outcome("fetchTypeError", 0, FALSE, FALSE), Outcome("otherError", 0, FALSE, FALSE)}

\* Failure Classifier kinds of the specification, for a received outcome.
Classify(o) ==
    IF o.kind # "resp" THEN "Network"
    ELSE IF o.status >= 500 THEN "ServerError"
    ELSE IF o.status = 401 THEN "AuthError"
    ELSE IF o.status >= 400 THEN "ClientError"
    ELSE IF ~o.json THEN "ParseError"
    ELSE "Success"

\* ---------------------------------------------------------------- state
VARIABLES
    platform,          \* "ts" or "unity"
    maxRetries,        \* this.maxRetries
    autoRefreshToken,  \* this.autoRefreshToken
    apiKey,            \* this.apiKey   (0 = unset)
    jwt,               \* this.jwt      (0 = unset)
    hooked,            \* onTokenRefresh invocations of the last step: their arguments
    issued,            \* tokens handed to the client in the last step, and by what
    cleared,           \* clearJwt executions of the last step
    refreshFailed,     \* an automatic refresh failed and no register / login / setJwt
                       \* has handed over a token since
    hostCalls,         \* setJwt / logout calls the host made while calls were in flight
    req                \* per process: the call in progress and its trace

vars == <<platform, maxRetries, autoRefreshToken, apiKey, jwt, hooked, issued, cleared,
         refreshFailed, hostCalls, req>>
cfgVars == <<platform, maxRetries, autoRefreshToken, hostCalls>>

\* The mutable part of the client, threaded through the operators below; a step
\* starts with no hook invocation and no token handed over.
World == [apiKey |-> apiKey, jwt |-> jwt, hooked |-> <<>>, issued |-> <<>>, cleared |-> 0,
          refreshFailed |-> refreshFailed, req |-> req]

\* The step is over.  A call in progress notes whether a session token is held
\* (sawJwt: one was held at some point since the call began).
Install(w) ==
    /\ apiKey' = w.apiKey
    /\ jwt' = w.jwt
    /\ hooked' = w.hooked
    /\ issued' = w.issued
    /\ cleared' = w.cleared
    /\ refreshFailed' = w.refreshFailed
    /\ req' = [p \in Procs |->
                IF w.req[p].status = "running" /\ w.jwt # 0
                THEN [w.req[p] EXCEPT !.sawJwt = TRUE]
                ELSE w.req[p]]

\* Math.pow(2, n)
RECURSIVE Pow2(_)
Pow2(n) == IF n = 0 THEN 1 ELSE 2 * Pow2(n - 1)

\* One activation of request() / Request(); wait is the delay of its latest sleep.
Frame(url, retryOnAuth, requireAuth, preset, body) ==
    [url |-> url, retryOnAuth |-> retryOnAuth, requireAuth |-> requireAuth,
     preset |-> preset, body |-> body, attempt |-> 0, lastError |-> NullErr, pc |-> "run",
     wait |-> 0]

IdleReq ==
    [op |-> "none", status |-> "idle", phase |-> "main", stack |-> <<>>,
     result |-> NullErr, thrown |-> NullErr,
     sends |-> 0, resps |-> 0, rsends |-> 0, rsentAt |-> 0, rops |-> 0, rok |-> 0,
     rtok |-> 0, hdrFirst |-> NoHdr, hdrLast |-> NoHdr, sawJwt |-> FALSE,
     lastClass |-> "none", seen |-> {}, jwtAtEnd |-> 0,
     cbSuccess |-> 0, cbError |-> 0, eventId |-> 0, returned |-> 0]

\* Tokens and API keys are opaque strings that are only compared for equality;
\* they are named by positive integers.  Names occurring in the state:
Used(w) ==
    {w.apiKey, w.jwt}
    \cup UNION {{w.req[p].rtok, w.req[p].hdrFirst[2], w.req[p].hdrLast[2], w.req[p].jwtAtEnd}
                \cup {w.req[p].stack[i].preset[2] : i \in 1..Len(w.req[p].stack)}
                \cup {w.req[p].stack[i].body : i \in 1..Len(w.req[p].stack)}
                : p \in Procs}

\* A token or key the server newly issues: a name different from all in use.
Fresh(w) ==
    CHOOSE n \in 1..(Cardinality(Used(w)) + 1) :
        /\ n \notin Used(w)
        /\ \A m \in 1..(n - 1) : m \in Used(w)

Top(w, p) == w.req[p].stack[Len(w.req[p].stack)]
SetTop(w, p, f) == [w EXCEPT !.req[p].stack[Len(w.req[p].stack)] = f]
Push(w, p, f) == [w EXCEPT !.req[p].stack = Append(@, f)]
Pop(w, p) == [w EXCEPT !.req[p].stack = SubSeq(@, 1, Len(@) - 1)]


\* ================================================================ TypeScript client
RECURSIVE TsRequestIter(_, _), TsRequestSend(_, _), TsCatchSkillBaseError(_, _, _)
RECURSIVE TsThrow(_, _, _), TsReturn(_, _, _), TsRefreshTokenInternal(_, _)
RECURSIVE TsEndpointReturn(_, _, _)

\* Endpoint policy: the retryOnAuth / requireAuth arguments each endpoint passes to
\* request(), and whether it puts a ready-made Authorization header into options.
TsOps == {"register", "login", "refreshToken", "createProject", "listProjects",
          "getProject", "regenerateApiKey", "createEvent", "getEvents"}
TsAuthOps == {"register", "login", "refreshToken"}
TsRetryOnAuth(op) == op \notin {"register", "login", "refreshToken"}
TsRequireAuth(op) == op \notin {"register", "login"}
TsPresetsHeader(op) == op \notin {"register", "login", "refreshToken"}

\* Mutant: the session token is preferred over the API key.
GetAuthHeader_JwtFirst(w) ==
    IF w.jwt # 0 THEN JwtHdr(w.jwt)
    ELSE IF w.apiKey # 0 THEN KeyHdr(w.apiKey)
    ELSE NoHdr

\* getAuthHeader(): NoHdr stands for the thrown Error.
GetAuthHeader(w) ==
    IF w.apiKey # 0 THEN KeyHdr(w.apiKey)
    ELSE IF w.jwt # 0 THEN JwtHdr(w.jwt)
    ELSE NoHdr

\* Mutant: the hook is invoked twice.
SetJwt_HookTwice(w, t) == [w EXCEPT !.jwt = t, !.hooked = @ \o <<t, t>>]

\* Mutant: the hook is not invoked.
SetJwt_NoHook(w, t) == [w EXCEPT !.jwt = t]

\* setJwt(jwt) with the onTokenRefresh hook configured.
SetJwt(w, t) == [w EXCEPT !.jwt = t, !.hooked = Append(@, t)]

\* A token reaches the client: the truthy accessToken of an answer to register,
\* login or refresh (by = the operation), or the argument of a setJwt call of
\* the host (by = "host").
Issue(w, by, t) ==
    [w EXCEPT !.issued = Append(@, [by |-> by, tok |-> t]),
              !.refreshFailed = IF by \in {"refresh", "refreshToken", "RefreshToken"}
                                THEN @ ELSE FALSE]

SetApiKey(w, k) == [w EXCEPT !.apiKey = k]

\* Mutant: the API key is dropped together with the session token.
ClearJwt_AlsoApiKey(w) == [w EXCEPT !.jwt = 0, !.apiKey = 0, !.cleared = @ + 1]

\* Mutant: clearing notifies the hook as well.
ClearJwt_InvokesHook(w) == [w EXCEPT !.jwt = 0, !.cleared = @ + 1, !.hooked = Append(@, 0)]

\* clearJwt()
ClearJwt(w) == [w EXCEPT !.jwt = 0, !.cleared = @ + 1]

\* Mutant: every 4xx/5xx status is taken as retryable (>= 400 for >= 500).
IsRetryableError_Any4xx(w, e) ==
    \/ e.code = 0
    \/ e.code >= 400
    \/ (e.code = 401 /\ w.jwt # 0 /\ autoRefreshToken)

\* Mutant: the 401 branch does not look at this.jwt.
IsRetryableError_NoJwtCheck(w, e) ==
    \/ e.code = 0
    \/ e.code >= 500
    \/ (e.code = 401 /\ autoRefreshToken)

\* Mutant: the 401 branch does not look at this.autoRefreshToken.
IsRetryableError_NoAutoRefreshCheck(w, e) ==
    \/ e.code = 0
    \/ e.code >= 500
    \/ (e.code = 401 /\ w.jwt # 0)

IsRetryableError(w, e) ==
    \/ e.code = 0
    \/ e.code >= 500
    \/ (e.code = 401 /\ w.jwt # 0 /\ autoRefreshToken)

\* The call is over: the promise of the endpoint method settles.
Finish(w, p, res) ==
    [w EXCEPT !.req[p].status = "done", !.req[p].result = res,
              !.req[p].stack = <<>>, !.req[p].jwtAtEnd = w.jwt]

\* Mutant: the delay does not grow with the attempt.
TsSleep_NoBackoff(w, p) ==
    SetTop(w, p, [Top(w, p) EXCEPT !.pc = "sleep", !.wait = RetryDelay])

\* await this.sleep(this.retryDelay * Math.pow(2, attempt)); continue
TsSleep(w, p) ==
    SetTop(w, p, [Top(w, p) EXCEPT !.pc = "sleep",
                                   !.wait = RetryDelay * Pow2(Top(w, p).attempt)])

\* fetch(url, {...options, headers}) is issued: one physical send.
TsFetch(w, p, hdr) ==
    LET w1 == SetTop(w, p, [Top(w, p) EXCEPT !.pc = "fetch"])
        r == w1.req[p]
    IN IF Len(r.stack) = 1
       THEN [w1 EXCEPT !.req[p].sends = @ + 1,
                       !.req[p].hdrLast = hdr,
                       !.req[p].hdrFirst = IF r.sends = 0 THEN hdr ELSE @]
       ELSE [w1 EXCEPT !.req[p].rsends = @ + 1]

\* Event ids are opaque strings: the id the POST answered with (response.eventId)
\* and the id of some other event of the same user.
PostedEventId == 1
OtherEventId == 2

\* The list a getEvents() answer decodes to: with or without the created event.
EventsOf(o) == IF o.field THEN {PostedEventId, OtherEventId} ELSE {OtherEventId}

\* Mutant: the first event of the list is returned, whatever its id.
TsCreateEventResolve_FirstOfList(w, p, events) ==
    LET id == w.req[p].eventId
        createdEvent == OtherEventId
    IN Finish([w EXCEPT !.req[p].returned = IF createdEvent # 0 THEN createdEvent ELSE id],
              p, OkRes)

\* createEvent() after its try block: events.find(e => e.id === response.eventId)
\* is returned when there is one, else the minimal event { id: response.eventId }.
TsCreateEventResolve(w, p, events) ==
    LET id == w.req[p].eventId
        createdEvent == IF id \in events THEN id ELSE 0
    IN Finish([w EXCEPT !.req[p].returned = IF createdEvent # 0 THEN createdEvent ELSE id],
              p, OkRes)

\* createEvent() after its POST resolved: getEvents(userId) inside the try block.
\* getEvents() builds its own header and is a request() of its own, so the
\* per-request trace starts afresh.
TsCreateEventFollowUp(w, p) ==
    IF GetAuthHeader(w) = NoHdr
    THEN TsCreateEventResolve([w EXCEPT !.req[p].eventId = PostedEventId], p, {})
    ELSE LET r == [IdleReq EXCEPT !.op = "createEvent", !.status = "running",
                                  !.phase = "followup", !.eventId = PostedEventId]
         IN TsRequestIter(Push([w EXCEPT !.req[p] = r], p,
                               Frame("orig", TRUE, TRUE, GetAuthHeader(w), 0)), p)

\* The follow-up of an endpoint method once its request() promise resolved.
TsEndpointReturn(w, p, o) ==
    LET op == w.req[p].op
    IN IF op \in TsAuthOps /\ o.field
       THEN Finish(SetJwt(Issue(w, op, Fresh(w)), Fresh(w)), p, OkRes)
       ELSE IF op \in {"createProject", "regenerateApiKey"} /\ o.field
       THEN Finish(SetApiKey(w, Fresh(w)), p, OkRes)
       ELSE IF op = "createEvent" /\ w.req[p].phase = "main"
       THEN TsCreateEventFollowUp(w, p)
       ELSE IF op = "createEvent"
       THEN TsCreateEventResolve(w, p, EventsOf(o))
       ELSE Finish(w, p, OkRes)

\* Mutant: a rejected call drops the session token.
TsEndpointThrow_Clears(w, p, e) ==
    LET w1 == [ClearJwt(w) EXCEPT !.req[p].thrown = e]
    IN IF w.req[p].op = "createEvent" /\ w.req[p].phase = "followup"
       THEN TsCreateEventResolve(w1, p, {})
       ELSE Finish(w1, p, e)

\* The request() promise rejected: the endpoint method rejects with the same
\* error, except createEvent(), which swallows a failure of its getEvents().
TsEndpointThrow(w, p, e) ==
    LET w1 == [w EXCEPT !.req[p].thrown = e]
    IN IF w.req[p].op = "createEvent" /\ w.req[p].phase = "followup"
       THEN TsCreateEventResolve(w1, p, {})
       ELSE Finish(w1, p, e)

\* request() returns data: the frame ends; either refreshTokenInternal() resumes
\* (and after it the request() that awaited it), or the endpoint method does.
TsReturn(w, p, o) ==
    LET w1 == Pop(w, p)
    IN IF Len(w1.req[p].stack) > 0
       THEN LET w2 == IF o.field
                      THEN SetJwt(Issue(w1, "refresh", Fresh(w1)), Fresh(w1))
                      ELSE w1
                w3 == [w2 EXCEPT !.req[p].rok = @ + 1,
                                 !.req[p].rtok = IF o.field THEN w2.jwt ELSE @]
            IN TsRequestSend(w3, p)
       ELSE TsEndpointReturn(w1, p, o)

\* Mutant: the catch of refreshTokenInternal() does not clear the token.
TsThrow_NoClear(w, p, e) ==
    LET w1 == Pop(w, p)
    IN IF Len(w1.req[p].stack) > 0
       THEN TsCatchSkillBaseError([w1 EXCEPT !.refreshFailed = TRUE], p,
                                  Top(w1, p).lastError)
       ELSE TsEndpointThrow(w1, p, e)

\* request() throws e: the frame ends; inside refreshTokenInternal() the catch
\* clears the token and the awaiting request() rethrows its own lastError.
TsThrow(w, p, e) ==
    LET w1 == Pop(w, p)
    IN IF Len(w1.req[p].stack) > 0
       THEN TsCatchSkillBaseError([ClearJwt(w1) EXCEPT !.refreshFailed = TRUE], p,
                                  Top(w1, p).lastError)
       ELSE TsEndpointThrow(w1, p, e)

\* catch (error) { if (error instanceof SkillBaseError) { ... } }
TsCatchSkillBaseError(w, p, e) ==
    LET f == Top(w, p)
        w1 == SetTop(w, p, [f EXCEPT !.lastError = e])
    IN IF IsRetryableError(w1, e) /\ f.attempt < maxRetries /\ f.retryOnAuth
       THEN TsSleep(w1, p)
       ELSE TsThrow(w1, p, e)

\* refreshTokenInternal() up to its await.
TsRefreshTokenInternal(w, p) ==
    IF w.jwt = 0
    THEN TsCatchSkillBaseError(w, p, Top(w, p).lastError)
    ELSE LET w1 == [w EXCEPT !.req[p].rops = @ + 1, !.req[p].rsends = 0,
                             !.req[p].rsentAt = w.req[p].sends]
         IN TsRequestIter(Push(w1, p, Frame("refresh", FALSE, TRUE, NoHdr, w.jwt)), p)

\* Build headers and send (the part of the try block after the refresh).
TsRequestSend(w, p) ==
    LET f == Top(w, p)
    IN IF f.preset # NoHdr THEN TsFetch(w, p, f.preset)
       ELSE IF ~f.requireAuth THEN TsFetch(w, p, NoHdr)
       ELSE IF GetAuthHeader(w) = NoHdr
       THEN TsCatchSkillBaseError(w, p, Err(401, "nocred"))
       ELSE TsFetch(w, p, GetAuthHeader(w))

\* Mutant: no refresh is made while an API key is configured.
TsRequestIter_NoRefreshWithApiKey(w, p) ==
    LET f == Top(w, p)
    IN IF /\ f.attempt > 0
          /\ f.lastError.code = 401
          /\ w.jwt # 0
          /\ w.apiKey = 0
          /\ autoRefreshToken
          /\ f.retryOnAuth
       THEN TsRefreshTokenInternal(w, p)
       ELSE TsRequestSend(w, p)

\* Top of one loop iteration: refresh first when the last error was a 401.
TsRequestIter(w, p) ==
    LET f == Top(w, p)
    IN IF /\ f.attempt > 0
          /\ f.lastError.code = 401
          /\ w.jwt # 0
          /\ autoRefreshToken
          /\ f.retryOnAuth
       THEN TsRefreshTokenInternal(w, p)
       ELSE TsRequestSend(w, p)

\* Mutant: a 401 on the last attempt still refreshes and re-sends.
TsReceive_RefreshBeyondBudget(w, p, o) ==
    LET f == Top(w, p)
        w0 == IF Len(w.req[p].stack) = 1
              THEN [w EXCEPT !.req[p].lastClass = Classify(o),
                             !.req[p].resps = @ + 1,
                             !.req[p].seen = @ \cup {Classify(o)}]
              ELSE w
    IN IF o.kind = "fetchTypeError"
       THEN LET w1 == SetTop(w0, p, [f EXCEPT !.lastError = Err(0, "network")])
            IN IF f.attempt < maxRetries
               THEN TsSleep(w1, p)
               ELSE TsThrow(w1, p, Err(0, "network"))
       ELSE IF o.kind = "otherError" \/ ~o.json
       THEN TsThrow(w0, p, Err(0, "unknown"))
       ELSE IF o.status # 200
       THEN LET e == Err(o.status, "http")
            IN IF IsRetryableError(w0, e) /\ f.attempt < maxRetries /\ f.retryOnAuth
               THEN TsSleep(SetTop(w0, p, [f EXCEPT !.lastError = e]), p)
               ELSE IF IsRetryableError(w0, e) /\ f.retryOnAuth /\ e.code = 401
                       /\ w0.req[p].rops = 0
               THEN TsRefreshTokenInternal(SetTop(w0, p, [f EXCEPT !.lastError = e]), p)
               ELSE TsCatchSkillBaseError(w0, p, e)
       ELSE TsReturn(w0, p, o)

\* The awaited fetch / response.json() settles with outcome o.
TsReceive(w, p, o) ==
    LET f == Top(w, p)
        w0 == IF Len(w.req[p].stack) = 1
              THEN [w EXCEPT !.req[p].lastClass = Classify(o),
                             !.req[p].resps = @ + 1,
                             !.req[p].seen = @ \cup {Classify(o)}]
              ELSE w
    IN IF o.kind = "fetchTypeError"
       THEN LET w1 == SetTop(w0, p, [f EXCEPT !.lastError = Err(0, "network")])
            IN IF f.attempt < maxRetries
               THEN TsSleep(w1, p)
               ELSE TsThrow(w1, p, Err(0, "network"))
       ELSE IF o.kind = "otherError" \/ ~o.json
       THEN TsThrow(w0, p, Err(0, "unknown"))
       ELSE IF o.status # 200
       THEN LET e == Err(o.status, "http")
            IN IF IsRetryableError(w0, e) /\ f.attempt < maxRetries /\ f.retryOnAuth
               THEN TsSleep(SetTop(w0, p, [f EXCEPT !.lastError = e]), p)
               ELSE TsCatchSkillBaseError(w0, p, e)
       ELSE TsReturn(w0, p, o)

\* Mutant: a successful refresh restarts the attempt counter.
TsWake_RestartsAfter401(w, p) ==
    LET f == Top(w, p)
        w1 == SetTop(w, p, [f EXCEPT !.attempt = IF f.lastError.code = 401
                                                  THEN 1 ELSE @ + 1,
                                     !.pc = "run"])
    IN IF f.attempt + 1 <= maxRetries
       THEN TsRequestIter(w1, p)
       ELSE TsThrow(w1, p, f.lastError)

\* The sleep is over: attempt++ and the next loop iteration starts.
TsWake(w, p) ==
    LET f == Top(w, p)
        w1 == SetTop(w, p, [f EXCEPT !.attempt = @ + 1, !.pc = "run"])
    IN IF f.attempt + 1 <= maxRetries
       THEN TsRequestIter(w1, p)
       ELSE TsThrow(w1, p, f.lastError)

\* Mutant: the endpoint methods take the credential as optional.
TsStart_AuthOptional(w, p, op) ==
    LET w1 == [w EXCEPT !.req[p] = [IdleReq EXCEPT !.op = op, !.status = "running"]]
    IN TsRequestIter(
           Push(w1, p, Frame(IF op = "refreshToken" THEN "refresh" ELSE "orig",
                             TsRetryOnAuth(op), FALSE,
                             IF TsPresetsHeader(op) THEN GetAuthHeader(w) ELSE NoHdr,
                             IF op = "refreshToken" THEN w.jwt ELSE 0)), p)

\* An endpoint method is called: everything up to its first await.
TsStart(w, p, op) ==
    LET w1 == [w EXCEPT !.req[p] = [IdleReq EXCEPT !.op = op, !.status = "running"]]
    IN IF TsPresetsHeader(op) /\ GetAuthHeader(w) = NoHdr
       THEN Finish(w1, p, Err(-2, "plainError"))
       ELSE IF op = "refreshToken" /\ w.jwt = 0
       THEN Finish(w1, p, Err(401, "nojwt"))
       ELSE TsRequestIter(
                Push(w1, p, Frame(IF op = "refreshToken" THEN "refresh" ELSE "orig",
                                  TsRetryOnAuth(op), TsRequireAuth(op),
                                  IF TsPresetsHeader(op) THEN GetAuthHeader(w) ELSE NoHdr,
                                  IF op = "refreshToken" THEN w.jwt ELSE 0)), p)

\* ================================================================ Unity client
RECURSIVE UIter(_, _), UCreate(_, _), UNextIter(_, _), UOnSuccess(_, _, _), UOnError(_, _, _)
RECURSIVE UCallbackError(_, _, _)

\* Register / Login pass an empty header dictionary, RefreshToken passes null,
\* CreateEvent / GetEvents pass { Authorization: GetAuthHeader() }.
UOps == {"Register", "Login", "RefreshToken", "CreateEvent", "GetEvents"}
UAuthOps == {"Register", "Login", "RefreshToken"}
URetryOnAuth(op) == op \in {"CreateEvent", "GetEvents"}
UPresetsHeader(op) == op \in {"CreateEvent", "GetEvents"}

UIsRetryableError(w, e) ==
    \/ e.code = -2
    \/ e.code = 0
    \/ e.code >= 500
    \/ (e.code = 401 /\ w.jwt # 0 /\ autoRefreshToken)

\* The coroutine started by the endpoint method has ended.
UFinish(w, p) ==
    [w EXCEPT !.req[p].status = "done", !.req[p].stack = <<>>, !.req[p].jwtAtEnd = w.jwt]

\* The endpoint's own onSuccess / onError callback is invoked.
UCallbackSuccess(w, p) ==
    [w EXCEPT !.req[p].cbSuccess = @ + 1, !.req[p].result = OkRes]

UCallbackError(w, p, e) ==
    [w EXCEPT !.req[p].cbError = @ + 1, !.req[p].result = e, !.req[p].thrown = e]

\* yield return new WaitForSeconds(retryDelayMs * 2^attempt / 1000f); continue
USleep(w, p) ==
    SetTop(w, p, [Top(w, p) EXCEPT !.pc = "sleep",
                                   !.wait = RetryDelay * Pow2(Top(w, p).attempt)])

\* yield return request.SendWebRequest(): one physical send.
USend(w, p, hdr) ==
    LET w1 == SetTop(w, p, [Top(w, p) EXCEPT !.pc = "fetch"])
        r == w1.req[p]
    IN IF Len(r.stack) = 1
       THEN [w1 EXCEPT !.req[p].sends = @ + 1,
                       !.req[p].hdrLast = hdr,
                       !.req[p].hdrFirst = IF r.sends = 0 THEN hdr ELSE @]
       ELSE [w1 EXCEPT !.req[p].rsends = @ + 1]

\* Request() reaches onSuccess(data); yield break.
UOnSuccess(w, p, o) ==
    LET w1 == Pop(w, p)
        op == w.req[p].op
    IN IF Len(w1.req[p].stack) > 0
       THEN \* RefreshTokenCoroutine: success only when accessToken != null
            IF o.field
            THEN UCreate([SetJwt(Issue(w1, "refresh", Fresh(w1)), Fresh(w1))
                             EXCEPT !.req[p].rok = @ + 1, !.req[p].rtok = Fresh(w1)], p)
            ELSE UCreate(UCallbackError(w1, p, Top(w1, p).lastError), p)
       ELSE IF op \in UAuthOps /\ o.field
       THEN UFinish(UCallbackSuccess(SetJwt(Issue(w1, op, Fresh(w1)), Fresh(w1)), p), p)
       ELSE UFinish(UCallbackSuccess(w1, p), p)

\* Request() reaches its final onError(lastError ?? ...).
UOnError(w, p, e) ==
    LET w1 == Pop(w, p)
        op == w.req[p].op
    IN IF Len(w1.req[p].stack) > 0
       THEN \* RefreshTokenCoroutine: ClearJwt(); onComplete(false) -> onError(lastError)
            UCreate(UCallbackError([ClearJwt(w1) EXCEPT !.refreshFailed = TRUE], p,
                                   Top(w1, p).lastError), p)
       ELSE IF op = "RefreshToken"
       THEN UFinish(UCallbackError(ClearJwt(w1), p, e), p)
       ELSE UFinish(UCallbackError(w1, p, e), p)

\* Mutant: the loop test lets one more iteration through.
UNextIter_OffByOne(w, p) ==
    LET f == Top(w, p)
        w1 == SetTop(w, p, [f EXCEPT !.attempt = @ + 1, !.pc = "run"])
    IN IF f.attempt + 1 <= maxRetries + 1
       THEN UIter(w1, p)
       ELSE UOnError(w1, p, f.lastError)

\* The loop body falls off its end (or `continue`s): attempt++ and the loop test.
UNextIter(w, p) ==
    LET f == Top(w, p)
        w1 == SetTop(w, p, [f EXCEPT !.attempt = @ + 1, !.pc = "run"])
    IN IF f.attempt + 1 <= maxRetries
       THEN UIter(w1, p)
       ELSE UOnError(w1, p, f.lastError)

\* Create the UnityWebRequest, set its headers and send it.
UCreate(w, p) ==
    LET f == Top(w, p)
    IN IF f.preset # NoHdr THEN USend(w, p, f.preset)
       ELSE IF GetAuthHeader(w) # NoHdr THEN USend(w, p, GetAuthHeader(w))
       ELSE LET w1 == SetTop(w, p, [f EXCEPT !.lastError = Err(0, "create")])
            IN IF f.attempt < maxRetries
               THEN USleep(w1, p)
               ELSE UOnError(w1, p, Err(0, "create"))

\* RefreshTokenCoroutine up to its first yield; with no token it reports
\* failure at once and the Request() that started it carries on.
URefreshTokenCoroutine(w, p) ==
    IF w.jwt = 0
    THEN UCreate(UCallbackError(w, p, Top(w, p).lastError), p)
    ELSE UIter(Push([w EXCEPT !.req[p].rops = @ + 1, !.req[p].rsends = 0,
                              !.req[p].rsentAt = w.req[p].sends], p,
                    Frame("refresh", FALSE, TRUE, NoHdr, w.jwt)), p)

\* Top of one loop iteration: RefreshTokenCoroutine first when the last error was a 401.
UIter(w, p) ==
    LET f == Top(w, p)
    IN IF /\ f.attempt > 0
          /\ f.lastError.code = 401
          /\ w.jwt # 0
          /\ autoRefreshToken
          /\ f.retryOnAuth
       THEN URefreshTokenCoroutine(w, p)
       ELSE UCreate(w, p)

\* SendWebRequest() completes with outcome o.
UReceive(w, p, o) ==
    LET f == Top(w, p)
        w0 == IF Len(w.req[p].stack) = 1
              THEN [w EXCEPT !.req[p].lastClass = Classify(o),
                             !.req[p].resps = @ + 1,
                             !.req[p].seen = @ \cup {Classify(o)}]
              ELSE w
        code == IF o.kind = "resp" THEN o.status ELSE 0
    IN IF o.kind = "resp" /\ o.status < 400
       THEN IF o.json
            THEN UOnSuccess(w0, p, o)
            ELSE UNextIter(SetTop(w0, p, [f EXCEPT !.lastError = Err(code, "parse")]), p)
       ELSE LET e == Err(code, IF o.kind = "resp" THEN "http" ELSE "network")
                w1 == SetTop(w0, p, [f EXCEPT !.lastError = e])
            IN IF UIsRetryableError(w1, e) /\ f.attempt < maxRetries /\ f.retryOnAuth
               THEN USleep(w1, p)
               ELSE UNextIter(w1, p)

\* An endpoint method is called: everything up to the first yield.
UStart(w, p, op) ==
    LET w1 == [w EXCEPT !.req[p] = [IdleReq EXCEPT !.op = op, !.status = "running"]]
    IN IF UPresetsHeader(op) /\ GetAuthHeader(w) = NoHdr
       THEN [w1 EXCEPT !.req[p].status = "done", !.req[p].result = Err(-2, "thrown")]
       ELSE IF op = "RefreshToken" /\ w.jwt = 0
       THEN UFinish(UCallbackError(w1, p, Err(401, "nojwt")), p)
       ELSE UIter(Push(w1, p, Frame(IF op = "RefreshToken" THEN "refresh" ELSE "orig",
                                    URetryOnAuth(op), TRUE,
                                    IF UPresetsHeader(op) THEN GetAuthHeader(w) ELSE NoHdr,
                                    IF op = "RefreshToken" THEN w.jwt ELSE 0)), p)

\* ---------------------------------------------------------------- actions
Running(p) == req[p].status = "running"
TopPc(p) == IF Running(p) THEN req[p].stack[Len(req[p].stack)].pc ELSE "none"

TsCall(p, op) ==
    /\ platform = "ts"
    /\ ~Running(p)
    /\ Install(TsStart(World, p, op))
    /\ UNCHANGED cfgVars

TsResponse(p, o) ==
    /\ platform = "ts"
    /\ TopPc(p) = "fetch"
    /\ Install(TsReceive(World, p, o))
    /\ UNCHANGED cfgVars

TsSleepDone(p) ==
    /\ platform = "ts"
    /\ TopPc(p) = "sleep"
    /\ Install(TsWake(World, p))
    /\ UNCHANGED cfgVars

UCall(p, op) ==
    /\ platform = "unity"
    /\ ~Running(p)
    /\ Install(UStart(World, p, op))
    /\ UNCHANGED cfgVars

UResponse(p, o) ==
    /\ platform = "unity"
    /\ TopPc(p) = "fetch"
    /\ Install(UReceive(World, p, o))
    /\ UNCHANGED cfgVars

USleepDone(p) ==
    /\ platform = "unity"
    /\ TopPc(p) = "sleep"
    /\ Install(UNextIter(World, p))
    /\ UNCHANGED cfgVars

\* Synchronous calls of the host application: setJwt(token) / SetJwt(token)
\* with a token of its own, logout() / Logout().
SetJwtCall ==
    /\ Install(SetJwt(Issue(World, "host", Fresh(World)), Fresh(World)))
    /\ UNCHANGED <<platform, maxRetries, autoRefreshToken>>

LogoutCall ==
    /\ Install(ClearJwt(World))
    /\ UNCHANGED <<platform, maxRetries, autoRefreshToken>>

\* The host's `await` (TypeScript) or callback (Unity) has taken the outcome of
\* the finished call; the host goes on to its next statement.
HostResumes(p) ==
    /\ req[p].status = "done"
    /\ Install([World EXCEPT !.req[p] = IdleReq])
    /\ UNCHANGED cfgVars

\* State after construction: the options object seeds the fields.
InitClient ==
    /\ autoRefreshToken \in BOOLEAN
    /\ apiKey \in {0, 1}
    /\ jwt \in {0, 2}
    /\ hooked = <<>>
    /\ issued = <<>>
    /\ cleared = 0
    /\ refreshFailed = FALSE
    /\ hostCalls = 0
    /\ req = [p \in Procs |-> IdleReq]

\* Sequential use of either client: the host awaits each call before the next,
\* and sets or clears the token between calls.
Init ==
    /\ platform \in {"ts", "unity"}
    /\ maxRetries \in 0..MaxRetriesCfg
    /\ InitClient

Next ==
    \/ \E op \in TsOps : req[1].status = "idle" /\ TsCall(1, op)
    \/ \E o \in Outcomes : TsResponse(1, o)
    \/ TsSleepDone(1)
    \/ \E op \in UOps : req[1].status = "idle" /\ UCall(1, op)
    \/ \E o \in Outcomes : UResponse(1, o)
    \/ USleepDone(1)
    \/ HostResumes(1)
    \/ (req[1].status = "idle" /\ SetJwtCall /\ UNCHANGED hostCalls)
    \/ (req[1].status = "idle" /\ LogoutCall /\ UNCHANGED hostCalls)

Spec == Init /\ [][Next]_vars

\* Logically concurrent calls on one TypeScript client: every process of Procs
\* is one call; the calls interleave at the sends and the waits, and the host
\* may set or clear the token in between, up to MaxHostCalls times.
ConcOps == {"listProjects", "login", "refreshToken"}

\* Server behaviours considered under concurrency: well-formed answers and
\* connection failures.
ConcOutcomes ==
    {Outcome("resp", s, TRUE, s = 200) : s \in {200, 401, 500}}
    \cup {Outcome("fetchTypeError", 0, FALSE, FALSE)}

InitConc ==
    /\ platform = "ts"
    /\ maxRetries \in 0..MaxRetriesConc
    /\ InitClient

NextConc ==
    \/ \E p \in Procs, op \in ConcOps : req[p].status = "idle" /\ TsCall(p, op)
    \/ \E p \in Procs, o \in ConcOutcomes : TsResponse(p, o)
    \/ \E p \in Procs : TsSleepDone(p)
    \/ (hostCalls < MaxHostCalls /\ SetJwtCall /\ hostCalls' = hostCalls + 1)
    \/ (hostCalls < MaxHostCalls /\ LogoutCall /\ hostCalls' = hostCalls + 1)

SpecConc == InitConc /\ [][NextConc]_vars

\* Sequential use of the TypeScript client on a runtime where every fetch()
\* settles and every setTimeout() of sleep() fires: an awaited send or wait is
\* never left pending forever.
LiveOps == {"login", "refreshToken", "listProjects", "createEvent"}

InitLive ==
    /\ platform = "ts"
    /\ maxRetries \in 0..MaxRetriesLive
    /\ InitClient

NextLive ==
    \/ \E op \in LiveOps : req[1].status = "idle" /\ TsCall(1, op)
    \/ \E o \in Outcomes : TsResponse(1, o)
    \/ TsSleepDone(1)
    \/ HostResumes(1)
    \/ (req[1].status = "idle" /\ SetJwtCall /\ UNCHANGED hostCalls)
    \/ (req[1].status = "idle" /\ LogoutCall /\ UNCHANGED hostCalls)

SpecLive ==
    /\ InitLive
    /\ [][NextLive]_vars
    /\ WF_vars(\E o \in Outcomes : TsResponse(1, o))
    /\ WF_vars(TsSleepDone(1))

\* ================================================================ properties
TsRefreshEligible == {"createProject", "listProjects", "getProject",
                      "regenerateApiKey", "createEvent", "getEvents"}

Done(p) == req[p].status = "done"
Depth(p) == Len(req[p].stack)

\* An automatic refresh exchange of p is on the wire, carrying token t.
RefreshExchangeInFlight(p, t) ==
    /\ Running(p)
    /\ Depth(p) = 2
    /\ req[p].stack[2].pc = "fetch"
    /\ req[p].stack[2].body = t

\* C1: requests that got 401 under the same session token share one
\* POST /auth/refresh exchange: two calls never have a refresh exchange for the
\* same token on the wire at the same time.
C1_OneRefreshExchangePerToken ==
    \A p, q \in Procs :
        \A t \in Used(World) \ {0} :
            (RefreshExchangeInFlight(p, t) /\ RefreshExchangeInFlight(q, t)) => p = q

\* C2: one logical request runs at most one token refresh, and a 401 that
\* comes back after a successful refresh ends the request: it neither waits for
\* another attempt nor refreshes again.
C2_OneRefreshPerRequest ==
    \A p \in Procs :
        platform = "ts" =>
            /\ req[p].rops <= 1
            /\ ~(/\ Running(p)
                 /\ req[p].rok >= 1
                 /\ req[p].lastClass = "AuthError"
                 /\ Depth(p) = 1
                 /\ req[p].stack[1].pc = "sleep")

\* C3: with only a session token configured, the re-send that follows a
\* successful refresh carries the token that refresh installed.
C3_ResendCarriesNewToken ==
    \A p \in Procs :
        (/\ platform = "ts"
         /\ req[p].op \in TsRefreshEligible
         /\ req[p].hdrFirst[1] = "jwt"
         /\ req[p].rtok # 0)
        => req[p].hdrLast = JwtHdr(req[p].rtok)

\* C4: on both platforms one logical request performs at most maxRetries + 1
\* physical sends of the original request.
C4_SendsBounded ==
    \A p \in Procs : req[p].sends <= maxRetries + 1

C4_Witness ==
    \E p \in Procs :
        /\ platform = "unity"
        /\ maxRetries >= 1
        /\ Done(p)
        /\ req[p].sends = maxRetries + 1

\* C5: register and login are sent exactly once and never refresh.
C5_AuthCallsSentOnce ==
    \A p \in Procs :
        (platform = "ts" /\ req[p].op \in {"register", "login"})
        => (req[p].sends <= 1 /\ req[p].rops = 0 /\ req[p].rsends = 0)

\* C6: a refresh operation sends its exchange at most once, and the refresh
\* exchange never starts a refresh of its own.
C6_RefreshExchangeSentOnce ==
    \A p \in Procs :
        platform = "ts" =>
            /\ req[p].rsends <= 1
            /\ Depth(p) <= 2
            /\ req[p].op = "refreshToken" => (req[p].sends <= 1 /\ req[p].rops = 0)

\* C7: in the TypeScript client a ClientError or ParseError response ends the
\* request with an error in the step that receives it, so the send it answered
\* is never followed by another one.
C7_TsClientParseNotRetried ==
    \A p \in Procs :
        (platform = "ts" /\ req[p].lastClass \in {"ClientError", "ParseError"})
        => /\ Done(p)
           /\ req[p].thrown \in {Err(404, "http"), Err(0, "unknown")}

C7_Witness ==
    \E p \in Procs :
        /\ platform = "ts"
        /\ maxRetries >= 1
        /\ Done(p)
        /\ req[p].op = "createEvent"
        /\ req[p].lastClass = "ClientError"
        /\ req[p].result = Err(404, "http")
        /\ req[p].sends = 1

\* C8: in the Unity client a ClientError, a 401 that is not refresh-eligible, or
\* a parse failure ends the coroutine after the one send it answered.
UnityNotRefreshEligible401(p) ==
    /\ req[p].lastClass = "AuthError"
    /\ (~URetryOnAuth(req[p].op) \/ ~autoRefreshToken
        \/ ~req[p].sawJwt)

C8_UnityClientParseNotRetried ==
    \A p \in Procs :
        (/\ platform = "unity"
         /\ maxRetries >= 1
         /\ \/ req[p].lastClass \in {"ClientError", "ParseError"}
            \/ UnityNotRefreshEligible401(p))
        => (Done(p) /\ req[p].sends = 1)

\* C9 (Scenario C): the first send got 401 (the refresh started after one
\* send) and that refresh failed: the call fails with that 401, the token is cleared, one refresh
\* exchange was sent and the original request was sent once.
C9_RefreshFailureSurfacesOriginal401 ==
    \A p \in Procs :
        (/\ platform = "ts"
         /\ Done(p)
         /\ req[p].rops = 1
         /\ req[p].rsentAt = 1
         /\ req[p].rok = 0)
        => /\ req[p].thrown = Err(401, "http")
           /\ req[p].jwtAtEnd = 0
           /\ req[p].rsends = 1
           /\ req[p].sends = 1

\* C10 (Scenario D): no session token is held from the call to the answer; a
\* 401 ends the request in the step that receives it, with no refresh and no
\* send after the one it answered, whatever maxRetries and autoRefreshToken are.
NoSessionTokenDuring(p) == ~req[p].sawJwt

C10_ApiKeyOnly401Surfaced ==
    \A p \in Procs :
        (/\ platform = "ts"
         /\ req[p].hdrFirst[1] = "key"
         /\ NoSessionTokenDuring(p)
         /\ req[p].lastClass = "AuthError")
        => /\ Done(p)
           /\ req[p].thrown.code \in {401, 0}
           /\ req[p].rops = 0
           /\ req[p].rsends = 0

C10_Witness ==
    \E p \in Procs :
        /\ platform = "ts"
        /\ maxRetries >= 1
        /\ autoRefreshToken
        /\ Done(p)
        /\ req[p].op = "getEvents"
        /\ req[p].hdrFirst[1] = "key"
        /\ NoSessionTokenDuring(p)
        /\ req[p].lastClass = "AuthError"
        /\ req[p].result = Err(401, "http")
        /\ req[p].sends = 1

\* C11 (Scenario E): a retryable TypeScript request whose every attempt ended
\* in a connection failure, of whatever exception kind, was sent maxRetries + 1
\* times and failed with statusCode 0.
C11_NetworkRetriedToCeiling ==
    \A p \in Procs :
        (/\ platform = "ts"
         /\ TsRetryOnAuth(req[p].op)
         /\ Done(p)
         /\ req[p].seen = {"Network"})
        => /\ req[p].sends = maxRetries + 1
           /\ req[p].thrown.code = 0

\* C12 (Scenario A generalised): a retryable TypeScript request that has been
\* answered 5xx on its first j attempts and then 2xx with a decodable body
\* succeeds with that answer after j + 1 sends; while only 5xx answers have come
\* it fails only when all maxRetries + 1 attempts are used, and it never
\* refreshes.
C12_ServerErrorsThenSuccess ==
    \A p \in Procs :
        (/\ platform = "ts"
         /\ TsRetryOnAuth(req[p].op)
         /\ req[p].seen \subseteq {"ServerError", "Success"})
        => /\ req[p].rops = 0
           /\ req[p].sends <= maxRetries + 1
           /\ "Success" \in req[p].seen
                => /\ req[p].lastClass = "Success"
                   /\ Done(p)
                   /\ req[p].result = OkRes
                   /\ req[p].thrown = NullErr
                   /\ req[p].sends = req[p].resps
           /\ (Done(p) /\ req[p].result # OkRes /\ req[p].seen # {})
                => /\ req[p].sends = maxRetries + 1
                   /\ req[p].thrown = Err(500, "http")

\* C13: in the TypeScript client send number k + 1 (k >= 1) of a request() is
\* issued after that request() slept retryDelay * 2^(k-1) ms, for the original
\* request and for a refresh exchange alike, whatever failures came before.
C13_BackoffDoubles ==
    \A p \in Procs :
        (platform = "ts" /\ Running(p)) =>
            /\ (Depth(p) = 1 /\ req[p].stack[1].pc = "fetch" /\ req[p].sends >= 2)
                 => req[p].stack[1].wait = RetryDelay * Pow2(req[p].sends - 2)
            /\ (Depth(p) = 2 /\ req[p].stack[2].pc = "fetch" /\ req[p].rsends >= 2)
                 => req[p].stack[2].wait = RetryDelay * Pow2(req[p].rsends - 2)

\* Fourth send after a connection failure, a 5xx and a 401: the wait was 4000 ms.
C13_Witness ==
    \E p \in Procs :
        /\ platform = "ts"
        /\ Running(p)
        /\ Depth(p) = 1
        /\ req[p].stack[1].pc = "fetch"
        /\ req[p].sends = 4
        /\ req[p].seen = {"Network", "ServerError", "AuthError"}
        /\ req[p].stack[1].wait = 4 * RetryDelay

\* C14: in the TypeScript client a refresh exchange (automatic or through
\* refreshToken()) that returned an accessToken leaves that token as the session
\* token, set once, and onTokenRefresh was invoked exactly once, with that token.
C14_RefreshInstallsTokenOnce ==
    platform = "ts" =>
        \A i \in 1..Len(issued) :
            issued[i].by \in {"refresh", "refreshToken"}
            => /\ Len(issued) = 1
               /\ jwt = issued[i].tok
               /\ hooked = <<issued[i].tok>>

\* An automatic refresh has just succeeded and the original request is re-sent.
C14_Witness ==
    \E p \in Procs :
        /\ platform = "ts"
        /\ Len(issued) = 1
        /\ issued[1].by = "refresh"
        /\ Running(p)
        /\ req[p].rok = 1
        /\ req[p].sends = 2
        /\ jwt = issued[1].tok
        /\ hooked = <<jwt>>

\* C15: in the TypeScript client, from the failure of an automatic refresh until
\* register, login or setJwt hands over a token, no session token is held and
\* no POST /auth/refresh is on the wire; a call made in that time sends no
\* refresh exchange, refreshToken() sends nothing, and a 401 ends the call in
\* the step that receives it.
C15_NoRefreshAfterFailedRefresh ==
    (platform = "ts" /\ refreshFailed) =>
        /\ jwt = 0
        /\ \A p \in Procs :
            /\ \A i \in 1..Depth(p) : req[p].stack[i].url # "refresh"
            /\ ~req[p].sawJwt =>
                /\ req[p].rops = 0
                /\ req[p].rsends = 0
                /\ req[p].op = "refreshToken" => req[p].sends = 0
                /\ req[p].lastClass = "AuthError" =>
                    (Done(p) /\ req[p].thrown.code \in {401, 0})

\* After the failed refresh a later call, sent with the API key, got 401 and
\* ended after that one send.
C15_Witness ==
    \E p \in Procs :
        /\ platform = "ts"
        /\ refreshFailed
        /\ maxRetries >= 1
        /\ autoRefreshToken
        /\ Done(p)
        /\ ~req[p].sawJwt
        /\ req[p].op = "listProjects"
        /\ req[p].lastClass = "AuthError"
        /\ req[p].thrown = Err(401, "http")
        /\ req[p].sends = 1

\* C16: a TypeScript call whose policy requires auth, made while neither an API
\* key nor a session token is set, fails at once: nothing is sent, no refresh
\* exchange either.
C16_NoCredentialNoSend ==
    \A p \in Procs :
        (/\ platform = "ts"
         /\ req[p].status # "idle"
         /\ TsRequireAuth(req[p].op)
         /\ apiKey = 0
         /\ ~req[p].sawJwt)
        => /\ Done(p)
           /\ req[p].result \in {Err(-2, "plainError"), Err(401, "nojwt")}
           /\ req[p].sends = 0
           /\ req[p].rops = 0
           /\ req[p].rsends = 0

C16_Witness ==
    \E p \in Procs :
        /\ platform = "ts"
        /\ ~refreshFailed
        /\ apiKey = 0
        /\ jwt = 0
        /\ Done(p)
        /\ req[p].op = "createEvent"
        /\ ~req[p].sawJwt
        /\ req[p].result = Err(-2, "plainError")
        /\ req[p].sends = 0

\* C17: Unity Register / Login called on a client that holds neither an API key
\* nor a session token: the request is sent at once, without a backoff wait,
\* and it is sent exactly once.
C17_UnityAuthCallsNeedNoCredential ==
    \A p \in Procs :
        (/\ platform = "unity"
         /\ req[p].op \in {"Register", "Login"}
         /\ apiKey = 0
         /\ ~req[p].sawJwt)
        => /\ req[p].sends = 1
           /\ Running(p) => (/\ req[p].stack[1].pc = "fetch"
                             /\ req[p].stack[1].wait = 0)

\* C18: in both clients a request that carries an Authorization header carries
\* 'Bearer <apiKey>' whenever an API key is set, a session token being set or
\* not; a header made from the session token is sent only when no API key is set.
C18_ApiKeyPreferred ==
    \A p \in Procs :
        (Running(p) /\ req[p].sends >= 1) =>
            /\ (apiKey # 0 /\ req[p].hdrFirst # NoHdr) => req[p].hdrFirst = KeyHdr(apiKey)
            /\ (apiKey # 0 /\ req[p].hdrLast # NoHdr) => req[p].hdrLast = KeyHdr(apiKey)
            /\ req[p].hdrFirst[1] = "jwt" => apiKey = 0
            /\ req[p].hdrLast[1] = "jwt" => apiKey = 0

\* Both credentials set: the Unity request on the wire carries the API key.
C18_Witness ==
    \E p \in Procs :
        /\ platform = "unity"
        /\ apiKey # 0
        /\ jwt # 0
        /\ Running(p)
        /\ req[p].op = "GetEvents"
        /\ req[p].stack[1].pc = "fetch"
        /\ req[p].sends = 1
        /\ req[p].hdrFirst = KeyHdr(apiKey)

\* C19: in the TypeScript client every token handed to setJwt in a step (by the
\* host, or by the code after a successful register, login or refresh) is
\* stored as the session token, and onTokenRefresh was invoked once per such
\* token, with that token, within the same step.
C19_SetJwtStoresAndHooksOnce ==
    platform = "ts" =>
        /\ Len(hooked) = Len(issued)
        /\ \A i \in 1..Len(issued) : hooked[i] = issued[i].tok
        /\ Len(issued) >= 1 => jwt = issued[Len(issued)].tok

\* register() has just resolved with an accessToken.
C19_Witness ==
    \E p \in Procs :
        /\ platform = "ts"
        /\ Done(p)
        /\ req[p].op = "register"
        /\ req[p].result = OkRes
        /\ Len(issued) = 1
        /\ issued[1].by = "register"
        /\ jwt = issued[1].tok
        /\ hooked = <<jwt>>

\* C20: a TypeScript step that executes clearJwt (logout(), or the clear after a
\* failed automatic refresh) leaves no session token and changes neither the
\* API key nor maxRetries / autoRefreshToken; with an API key set the
\* authorization header can still be built, from that key.
C20_ClearJwtOnlyDropsToken ==
    [][(platform = "ts" /\ cleared' >= 1)
        => /\ jwt' = 0
           /\ apiKey' = apiKey
           /\ maxRetries' = maxRetries
           /\ autoRefreshToken' = autoRefreshToken
           /\ apiKey # 0 => GetAuthHeader([apiKey |-> apiKey', jwt |-> jwt']) = KeyHdr(apiKey)]_vars

\* logout() on a client that held both credentials; the next request can be built.
C20_Witness ==
    /\ platform = "ts"
    /\ cleared = 1
    /\ ~refreshFailed
    /\ req[1].status = "idle"
    /\ jwt = 0
    /\ apiKey # 0
    /\ GetAuthHeader(World) = KeyHdr(apiKey)

\* C21: in the TypeScript client a step changes the session token only when a
\* token was handed to setJwt in it (a successful register, login or refresh
\* answer, or setJwt of the host) or clearJwt ran in it (clearJwt / logout of
\* the host, or the clear after a failed automatic refresh).  A step in which a
\* register or login fails, or in which another call that ran no refresh fails,
\* changes neither the session token nor the API key and invokes no hook.
C21_TokenChangesOnlyAtSetOrClear ==
    [][platform = "ts" =>
        /\ jwt' # jwt =>
            \/ (Len(issued') = 1 /\ jwt' = issued'[1].tok)
            \/ (cleared' >= 1 /\ jwt' = 0
                /\ (refreshFailed' \/ \A p \in Procs : req'[p] = req[p]))
        /\ \A p \in Procs :
            (/\ req[p].status # "done"
             /\ req'[p].status = "done"
             /\ req'[p].result # OkRes
             /\ \/ req'[p].op \in {"register", "login"}
                \/ (req'[p].op \notin TsAuthOps /\ req'[p].rops = 0))
            => (jwt' = jwt /\ apiKey' = apiKey /\ hooked' = <<>>)]_vars

\* login() has just been rejected with 401 on a client that holds a token.
C21_Witness ==
    \E p \in Procs :
        /\ platform = "ts"
        /\ Done(p)
        /\ req[p].op = "login"
        /\ req[p].result = Err(401, "http")
        /\ jwt # 0
        /\ hooked = <<>>
        /\ issued = <<>>
        /\ cleared = 0

\* C22: when every send and every backoff wait of the TypeScript client
\* completes, a call that is running eventually reaches its outcome, and it
\* does so within maxRetries + 1 sends of the request, at most maxRetries
\* refresh exchanges and at most maxRetries + 1 sends per refresh exchange,
\* whatever the server answers (401 to every send and a new token to every
\* refresh included).
C22_RequestTerminates ==
    /\ [](platform = "ts" =>
            \A p \in Procs :
                /\ req[p].sends <= (maxRetries + 1)
                                   * (IF req[p].op = "createEvent" THEN 2 ELSE 1)
                /\ req[p].rops <= maxRetries
                                   * (IF req[p].op = "createEvent" THEN 2 ELSE 1)
                /\ req[p].rsends <= maxRetries + 1)
    /\ (Running(1) ~> Done(1))

\* A refresh-eligible call ended after the server answered 401 to each of its
\* maxRetries + 1 sends and accepted each of the maxRetries refreshes.
C22_Witness ==
    \E p \in Procs :
        /\ platform = "ts"
        /\ maxRetries = MaxRetriesLive
        /\ Done(p)
        /\ req[p].op = "listProjects"
        /\ req[p].seen = {"AuthError"}
        /\ req[p].sends = maxRetries + 1
        /\ req[p].rops = maxRetries
        /\ req[p].rok = maxRetries

\* C23: a TypeScript request whose last answer had a status of 500..599 was
\* treated as a server error whatever the body: when it has ended, the error
\* it raised carries that status, and it ended only because all
\* maxRetries + 1 attempts were used.
C23_ServerErrorByStatusFirst ==
    \A p \in Procs :
        (/\ platform = "ts"
         /\ Done(p)
         /\ TsRetryOnAuth(req[p].op)
         /\ req[p].op # "createEvent"
         /\ req[p].lastClass = "ServerError")
        => /\ req[p].thrown.code >= 500
           /\ req[p].sends = maxRetries + 1

\* C24: a retryable TypeScript request that failed after all maxRetries + 1
\* sends raised the error of its last send: status 0 after a connection
\* failure, otherwise the HTTP status of the last answer, whatever the earlier
\* attempts met.
C24_LastSendErrorSurfaced ==
    \A p \in Procs :
        (/\ platform = "ts"
         /\ maxRetries >= 1
         /\ Done(p)
         /\ TsRetryOnAuth(req[p].op)
         /\ req[p].op # "createEvent"
         /\ req[p].sends = maxRetries + 1
         /\ req[p].resps = req[p].sends
         /\ req[p].result # OkRes)
        => /\ req[p].thrown = req[p].result
           /\ req[p].lastClass = "Network" => req[p].thrown.code = 0
           /\ req[p].lastClass = "ServerError" => req[p].thrown.code = 500
           /\ req[p].lastClass = "AuthError" => req[p].thrown.code = 401
           /\ req[p].lastClass = "ClientError" => req[p].thrown.code = 404

\* C25: an error raised by a TypeScript request carries status 0 only when its
\* last send did not reach the server; after an answer was received the error
\* carries the status of that answer, and the error for a missing credential
\* is not a 401.
C25_StatusZeroOnlyForTransport ==
    \A p \in Procs :
        (/\ platform = "ts"
         /\ Done(p)
         /\ req[p].thrown # NullErr)
        => /\ req[p].thrown.code = 0 => req[p].lastClass = "Network"
           /\ req[p].thrown.code = 401 => req[p].thrown.origin # "nocred"

\* C26: a refresh exchange of the TypeScript client, automatic or started by
\* refreshToken(), carries the current session token as its payload and is
\* sent by a request() that does not require authorization, so that no
\* Authorization header is resolved from the stored credentials for it.
C26_RefreshSentWithoutAuthHeader ==
    \A p \in Procs :
        platform = "ts" =>
            /\ \A i \in 1..Depth(p) :
                (req[p].stack[i].url = "refresh" /\ req[p].stack[i].pc = "fetch")
                => /\ req[p].stack[i].body = jwt
                   /\ ~req[p].stack[i].requireAuth
            /\ (req[p].op = "refreshToken" /\ req[p].sends >= 1)
                => req[p].hdrFirst = NoHdr

\* C27: after a failed call of the public refresh operation (refreshToken()
\* rejected, RefreshToken() reported through onError) the client holds no
\* session token, on both platforms.
C27_FailedPublicRefreshClears ==
    \A p \in Procs :
        (/\ Done(p)
         /\ req[p].op \in {"refreshToken", "RefreshToken"}
         /\ req[p].thrown # NullErr)
        => jwt = 0

\* C28: with autoRefreshToken = false a TypeScript request ends with the
\* first 401 it is answered: no refresh exchange is made and nothing is sent
\* after that answer, whether or not a token is held and retries remain; a
\* request that met nothing but the 401 has made exactly one send.
C28_NoAutoRefreshSurfaces401 ==
    \A p \in Procs :
        (/\ platform = "ts"
         /\ ~autoRefreshToken
         /\ "AuthError" \in req[p].seen)
        => /\ Done(p)
           /\ req[p].lastClass = "AuthError"
           /\ req[p].rops = 0
           /\ req[p].rsends = 0
           /\ req[p].sends = req[p].resps
           /\ req[p].thrown.code \in {401, 0}
           /\ req[p].seen = {"AuthError"} => req[p].resps = 1

\* listProjects() failed with the 401 of its only send although a token was
\* held and retries remained.
C28_Witness ==
    \E p \in Procs :
        /\ platform = "ts"
        /\ ~autoRefreshToken
        /\ maxRetries >= 1
        /\ Done(p)
        /\ req[p].op = "listProjects"
        /\ req[p].sawJwt
        /\ jwt # 0
        /\ req[p].sends = 1
        /\ req[p].rops = 0
        /\ req[p].thrown = Err(401, "http")

\* C29: a refresh-eligible TypeScript request whose header was built from the
\* API key while a session token was also held, and which is answered 401,
\* still refreshes the session token before each re-send, and every re-send
\* carries the same API key header as the first send.
C29_ApiKeyRequestStillRefreshes ==
    \A p \in Procs :
        (/\ platform = "ts"
         /\ req[p].op \in TsRefreshEligible
         /\ req[p].hdrFirst[1] = "key")
        => /\ req[p].hdrLast = req[p].hdrFirst
           /\ (req[p].seen = {"AuthError"} /\ req[p].sends >= 2)
                => /\ req[p].rops >= req[p].sends - 1
                   /\ req[p].rok >= req[p].sends - 1
           /\ ~(/\ Done(p)
                /\ autoRefreshToken
                /\ maxRetries >= 1
                /\ req[p].sends = 1
                /\ req[p].thrown = Err(401, "http")
                /\ req[p].sawJwt
                /\ jwt # 0)

\* The re-send of listProjects() after a 401 and an accepted refresh is on the
\* wire with the API key, both credentials being set.
C29_Witness ==
    \E p \in Procs :
        /\ platform = "ts"
        /\ apiKey # 0
        /\ jwt # 0
        /\ req[p].op = "listProjects"
        /\ req[p].seen = {"AuthError"}
        /\ req[p].sends = 2
        /\ req[p].rok = 1
        /\ req[p].rtok = jwt
        /\ req[p].hdrFirst = KeyHdr(apiKey)
        /\ req[p].hdrLast = KeyHdr(apiKey)

\* C30: when a refresh-eligible Unity request was answered 401 and the refresh
\* exchange made for it has failed, the request is over: onError has been
\* invoked once with the 401, and the request was not sent again after the
\* refresh.
C30_UnityFailedRefreshEndsRequest ==
    \A p \in Procs :
        (/\ platform = "unity"
         /\ URetryOnAuth(req[p].op)
         /\ req[p].rops >= 1
         /\ req[p].rok < req[p].rops
         /\ Depth(p) <= 1)
        => /\ Done(p)
           /\ req[p].cbError = 1
           /\ req[p].cbSuccess = 0
           /\ req[p].result.code = 401
           /\ req[p].sends = req[p].rsentAt

\* C31: a Unity request that went through Request() has invoked none of its
\* callbacks while it runs and exactly one of them, once, when it has ended:
\* onSuccess or onError, never both and never onError twice.
C31_UnityOneTerminalCallback ==
    \A p \in Procs :
        (platform = "unity" /\ req[p].sends + req[p].resps >= 1)
        => /\ Running(p) => req[p].cbSuccess + req[p].cbError = 0
           /\ Done(p) => req[p].cbSuccess + req[p].cbError = 1

\* C32: when a refresh exchange of the TypeScript client that carries a token
\* other than the one now stored (a newer token was installed after the
\* exchange started) completes, the stored token is not cleared.
C32_StaleRefreshKeepsNewerToken ==
    [][\A p \in Procs :
        (/\ platform = "ts"
         /\ Running(p)
         /\ Depth(p) = 2
         /\ req[p].stack[2].pc = "fetch"
         /\ jwt # 0
         /\ req[p].stack[2].body # jwt
         /\ req'[p] # req[p])
        => jwt' # 0]_vars

\* C33: while the TypeScript client holds no session token because of
\* logout(), no refresh exchange that completes installs a token or invokes
\* onTokenRefresh: a token comes back only through register, login or setJwt
\* (refreshToken() called without a token sends nothing).
C33_NoTokenFromRefreshAfterLogout ==
    [][(platform = "ts" /\ jwt = 0 /\ ~refreshFailed)
        => \A i \in 1..Len(issued') :
              issued'[i].by \notin {"refresh", "refreshToken"}]_vars

\* C34: among concurrent TypeScript requests (the host itself neither sets nor
\* clears the token), while a re-send of a request is on the wire after that
\* request's latest answer was a 401, a refresh made for this request between
\* that answer and the re-send has succeeded.
C34_ResendAfter401FollowsRefresh ==
    \A p \in Procs :
        (/\ platform = "ts"
         /\ hostCalls = 0
         /\ Running(p)
         /\ Depth(p) = 1
         /\ req[p].stack[1].pc = "fetch"
         /\ req[p].lastClass = "AuthError"
         /\ req[p].sends > req[p].resps)
        => /\ req[p].rops >= 1
           /\ req[p].rok >= 1
           /\ req[p].rsentAt = req[p].resps

\* C35: in the TypeScript client the re-send after a refresh comes out of the
\* retry budget: a refresh starts only after a 401 on an attempt with index
\* below maxRetries, so a request runs at most maxRetries refreshes, and with
\* maxRetries = 0 it runs none and a 401 ends it after its one send.
C35_RefreshWithinRetryBudget ==
    \A p \in Procs :
        platform = "ts" =>
            /\ req[p].rops >= 1 =>
                /\ req[p].rsentAt >= 1
                /\ req[p].rsentAt <= maxRetries
                /\ req[p].rops <= req[p].rsentAt
            /\ maxRetries = 0 =>
                /\ req[p].rops = 0
                /\ req[p].rsends = 0
                /\ req[p].sends <= 1
                /\ "AuthError" \in req[p].seen =>
                    (Done(p) /\ req[p].lastClass = "AuthError" /\ req[p].resps = 1)

\* With maxRetries = 0, listProjects() of a client that holds a token and has
\* automatic refresh enabled failed with the 401 of its only send.
C35_Witness ==
    \E p \in Procs :
        /\ platform = "ts"
        /\ maxRetries = 0
        /\ autoRefreshToken
        /\ jwt # 0
        /\ Done(p)
        /\ req[p].op = "listProjects"
        /\ req[p].hdrFirst[1] = "jwt"
        /\ req[p].sends = 1
        /\ req[p].rops = 0
        /\ req[p].thrown = Err(401, "http")

\* C36: a step of the TypeScript client in which clearJwt ran (clearJwt /
\* logout of the host, or the clear after a failed automatic refresh) invoked
\* onTokenRefresh not at all; the hook is invoked only in steps that executed
\* setJwt, as many times as setJwt was executed and never with an absent token.
C36_ClearNeverInvokesHook ==
    platform = "ts" =>
        /\ cleared >= 1 => (hooked = <<>> /\ issued = <<>>)
        /\ hooked # <<>> =>
            /\ cleared = 0
            /\ Len(hooked) = Len(issued)
            /\ \A i \in 1..Len(hooked) : hooked[i] # 0

\* The automatic refresh of a request has just failed and cleared the token.
C36_Witness ==
    \E p \in Procs :
        /\ platform = "ts"
        /\ cleared = 1
        /\ refreshFailed
        /\ Done(p)
        /\ req[p].rops >= 1
        /\ req[p].sawJwt
        /\ jwt = 0
        /\ hooked = <<>>

\* C37: once the POST of createEvent() of the TypeScript client has
\* succeeded, createEvent() ends by resolving, whatever its follow-up
\* getEvents() met (an error of any kind, or a list without the event), and
\* the event it returns has the eventId the POST answered with.
C37_CreateEventResolvesAfterPost ==
    \A p \in Procs :
        (/\ platform = "ts"
         /\ req[p].op = "createEvent"
         /\ req[p].eventId # 0)
        => /\ req[p].eventId = PostedEventId
           /\ Done(p) =>
                /\ req[p].result = OkRes
                /\ req[p].returned = req[p].eventId

\* createEvent() resolved although every send of its getEvents() was answered
\* with a server error.
C37_Witness ==
    \E p \in Procs :
        /\ platform = "ts"
        /\ maxRetries >= 1
        /\ Done(p)
        /\ req[p].op = "createEvent"
        /\ req[p].phase = "followup"
        /\ req[p].seen = {"ServerError"}
        /\ req[p].sends = maxRetries + 1
        /\ req[p].thrown.code = 500
        /\ req[p].result = OkRes
        /\ req[p].returned = PostedEventId

====
